---- MODULE Spec2Model ----
(***************************************************************************)
(* Model of the binary codecs of package datagrams: the offline-signature  *)
(* block (OfflineSignatureFromBytes / OfflineSignature.Bytes / Len) and    *)
(* the options mapping (Options and OptionsFromBytes).                     *)
(*                                                                         *)
(* Bytes are integers 0..255, byte slices and strings are sequences of     *)
(* bytes.  A 64-bit count of seconds s is kept as two limbs                *)
(* [hi, lo] with s = hi * 65536 + lo and lo \in 0..65535, so that the      *)
(* conversion uint32(s) (the low 32 bits) is [hi % 65536, lo].             *)
(***************************************************************************)
EXTENDS Integers, Sequences, FiniteSets, TLC

VARIABLES
    sig,      \* the *OfflineSignature the caller holds (NilSig when none)
    data,     \* the caller's byte buffer handed to OfflineSignatureFromBytes
    origin,   \* how data was produced (history of the buffer)
    res,      \* result of the last OfflineSignatureFromBytes call
    view,     \* the decoded OfflineSignature as read after the caller
              \* overwrote a byte of the input buffer
    reenc,    \* result of Bytes() on the decoded OfflineSignature
    opts,     \* the *Options the caller holds (NilOptions when absent)
    raw,      \* the caller's byte buffer handed to OptionsFromBytes
    ores,     \* result of the last OptionsFromBytes call
    oenc,     \* result of the last Options.Bytes call
    olast,    \* the last operation applied to opts, with its arguments
    oview,    \* the decoded Options as read after the caller overwrote a
              \* byte of the input buffer
    addr,     \* the *I2PAddr the caller holds (NilAddr when nil)
    aother,   \* a second *I2PAddr
    alast     \* the last address operation, with its arguments and result

vars == <<sig, data, origin, res, view, reenc, opts, raw, ores, oenc, olast, oview,
          addr, aother, alast>>

osVars == <<sig, data, origin, res, view, reenc>>
optVars == <<opts, raw, ores, oenc, olast, oview>>
addrVars == <<addr, aother, alast>>

----------------------------------------------------------------------------
(* Integers and byte order                                                 *)

\* One 16-bit limb: 2^16.
Limb == 256 * 256

\* binary.BigEndian.Uint16(b[0:2])
BEUint16(b) == b[1] * 256 + b[2]

\* binary.BigEndian.PutUint16(b[0:2], v)
BEPutUint16(v) == << v \div 256, v % 256 >>

\* Uint32 reading the four bytes least significant first.
BEUint32_LittleEndian(b) == [hi |-> b[4] * 256 + b[3], lo |-> b[2] * 256 + b[1]]

\* binary.BigEndian.Uint32(b[0:4]), as limbs [hi, lo]
BEUint32(b) == [hi |-> BEUint16(SubSeq(b, 1, 2)), lo |-> BEUint16(SubSeq(b, 3, 4))]

\* binary.BigEndian.PutUint32(b[0:4], v) for v given as limbs
BEPutUint32(v) == BEPutUint16(v.hi) \o BEPutUint16(v.lo)

\* A conversion that clamps to the unsigned 32-bit range instead of wrapping.
Uint32_Saturating(x) ==
    IF x.hi < 0 THEN [hi |-> 0, lo |-> 0]
    ELSE IF x.hi >= Limb THEN [hi |-> Limb - 1, lo |-> Limb - 1]
    ELSE [hi |-> x.hi, lo |-> x.lo]

\* uint32(x) of an int64 x given as limbs: the low 32 bits
Uint32(x) == [hi |-> x.hi % Limb, lo |-> x.lo]

\* time.Unix(sec, 0): an instant with no sub-second part
TimeUnix(sec) == [hi |-> sec.hi, lo |-> sec.lo, nsec |-> 0]

\* Time.Unix(): the whole seconds of an instant
UnixOf(t) == [hi |-> t.hi, lo |-> t.lo]

----------------------------------------------------------------------------
(* Signature type table                                                    *)

\* The table with code 4 (RSA_SHA256_2048) taken as known, and every other
\* code resolved to a zero-length key that is accepted.
publicKeyLengthForSigType_Lenient(sigType) ==
    CASE sigType = 0  -> 128
      [] sigType = 1  -> 64
      [] sigType = 2  -> 96
      [] sigType = 3  -> 132
      [] sigType = 4  -> 256
      [] sigType = 7  -> 32
      [] sigType = 11 -> 32
      [] OTHER        -> 0

publicKeyLengthForSigType(sigType) ==
    CASE sigType = 0  -> 128
      [] sigType = 1  -> 64
      [] sigType = 2  -> 96
      [] sigType = 3  -> 132
      [] sigType = 7  -> 32
      [] sigType = 11 -> 32
      [] OTHER        -> 0

\* The table with the DSA_SHA1 signature taken as 20 bytes.
signatureLengthForSigType_DSA20(sigType) ==
    CASE sigType = 0  -> 20
      [] sigType = 1  -> 64
      [] sigType = 2  -> 96
      [] sigType = 3  -> 132
      [] sigType = 7  -> 64
      [] sigType = 11 -> 64
      [] OTHER        -> 0

signatureLengthForSigType(sigType) ==
    CASE sigType = 0  -> 40
      [] sigType = 1  -> 64
      [] sigType = 2  -> 96
      [] sigType = 3  -> 132
      [] sigType = 7  -> 64
      [] sigType = 11 -> 64
      [] OTHER        -> 0

----------------------------------------------------------------------------
(* OfflineSignature                                                        *)

NilSig == [nil |-> TRUE]

OfflineSignature(expires, transientSigType, transientPublicKey, signature) ==
    [Expires            |-> expires,
     TransientSigType   |-> transientSigType,
     TransientPublicKey |-> transientPublicKey,
     Signature          |-> signature]

\* Length of the fixed header: expires (4) and sigtype (2).
HeaderLen == 6

\* A failed decode: (nil, 0, err).  touched is the number of leading bytes of
\* the input the call has read.
OsFail(err, touched) == [ok |-> FALSE, val |-> NilSig, n |-> 0, err |-> err, touched |-> touched]

OsTooShort(need, got) == [kind |-> "TooShort", need |-> need, got |-> got]
OsUnknownSigType(role, code) == [kind |-> "UnknownSigType", role |-> role, code |-> code]
\* A slice expression data[lo:hi] with hi > len(data) is a run-time panic.
OsPanic == [kind |-> "panic"]
NoErr == [kind |-> "none"]

\* The length check comparing against the header length only.
DataTooShort_HeaderOnly(d, totalLen) == Len(d) < HeaderLen

\* The length check before the variable-length fields are sliced out.
DataTooShort(d, totalLen) == Len(d) < totalLen

OfflineSignatureFromBytes(d, destSigType) ==
    IF Len(d) < HeaderLen
    THEN OsFail(OsTooShort(HeaderLen, Len(d)), 0)
    ELSE
      LET expiresSec       == BEUint32(SubSeq(d, 1, 4))
          expires          == TimeUnix(expiresSec)
          transientSigType == BEUint16(SubSeq(d, 5, 6))
          transientKeyLen  == publicKeyLengthForSigType(transientSigType)
          authSigLen       == signatureLengthForSigType(destSigType)
          totalLen         == HeaderLen + transientKeyLen + authSigLen
      IN  IF transientKeyLen = 0
          THEN OsFail(OsUnknownSigType("transient", transientSigType), HeaderLen)
          ELSE IF authSigLen = 0
          THEN OsFail(OsUnknownSigType("destination", destSigType), HeaderLen)
          ELSE IF DataTooShort(d, totalLen)
          THEN OsFail(OsTooShort(totalLen, Len(d)), HeaderLen)
          ELSE IF HeaderLen + transientKeyLen + authSigLen > Len(d)
          THEN \* data[offset:offset+n] past len(data): slice bounds out of range
               OsFail(OsPanic, Len(d) + 1)
          ELSE
            LET offset       == HeaderLen
                transientKey == SubSeq(d, offset + 1, offset + transientKeyLen)
                offset2      == offset + transientKeyLen
                signature    == SubSeq(d, offset2 + 1, offset2 + authSigLen)
            IN  [ok  |-> TRUE,
                 val |-> OfflineSignature(expires, transientSigType, transientKey, signature),
                 n   |-> totalLen,
                 err |-> NoErr,
                 touched |-> offset2 + authSigLen]

\* Bytes() writing the signature before the transient public key.
OsBytes_SignatureFirst(o) ==
    BEPutUint32(Uint32(UnixOf(o.Expires)))
      \o BEPutUint16(o.TransientSigType)
      \o o.Signature
      \o o.TransientPublicKey

\* (o *OfflineSignature) Bytes()
OsBytes(o) ==
    BEPutUint32(Uint32(UnixOf(o.Expires)))
      \o BEPutUint16(o.TransientSigType)
      \o o.TransientPublicKey
      \o o.Signature

\* Len() counting the two byte fields only, without the header.
OsLen_NoHeader(o) == Len(o.TransientPublicKey) + Len(o.Signature)

\* (o *OfflineSignature) Len()
OsLen(o) == HeaderLen + Len(o.TransientPublicKey) + Len(o.Signature)

----------------------------------------------------------------------------
(* Where the decoded byte fields live                                      *)

\* A field that is a slice expression on the input, data[lo:hi], sharing
\* the caller's memory.
Copied_Resliced(lo, hi) == [shared |-> TRUE, lo |-> lo, hi |-> hi]

\* make([]byte, n) followed by copy(field, data[lo:hi]): the field has memory
\* of its own, filled from bytes lo+1..hi of the input.
Copied(lo, hi) == [shared |-> FALSE, lo |-> lo, hi |-> hi]

\* The memory of the two byte fields of a successfully decoded
\* OfflineSignature.
OsFieldMemory(d, destSigType) ==
    LET transientKeyLen == publicKeyLengthForSigType(BEUint16(SubSeq(d, 5, 6)))
        authSigLen      == signatureLengthForSigType(destSigType)
        offset          == HeaderLen
    IN  [TransientPublicKey |-> Copied(offset, offset + transientKeyLen),
         Signature          |-> Copied(offset + transientKeyLen,
                                       offset + transientKeyLen + authSigLen)]

\* What reading a field yields when the input buffer now holds buf: the
\* buffer's bytes for a shared field, the bytes held for a field of its own.
ReadField(mem, held, buf) ==
    IF mem.shared THEN SubSeq(buf, mem.lo + 1, mem.hi) ELSE held

\* The buffer b with the byte at index i (1-based) changed.
Overwritten(b, i) == [b EXCEPT ![i] = (b[i] + 1) % 256]

----------------------------------------------------------------------------

(* Inputs of the offline-signature scenarios                               *)

\* Number of bytes a caller may have in its buffer after the block.
MaxTrailing == 2

\* The signature-type table as the specification states it:
\* code -> <<pubKeyLen, sigLen>>.
SigTypeTable ==
    (0 :> <<128, 40>>) @@ (1 :> <<64, 64>>) @@ (2 :> <<96, 96>>) @@
    (3 :> <<132, 132>>) @@ (7 :> <<32, 64>>) @@ (11 :> <<32, 64>>)

InTable(code) == code \in DOMAIN SigTypeTable

KnownSigTypes == DOMAIN SigTypeTable
UnknownSigTypes == {4, 255}
SigTypeCodes == KnownSigTypes \cup UnknownSigTypes

\* n bytes, all different from their neighbours: seed+1, seed+2, ...
Fill(n, seed) == [i \in 1..n |-> (seed + i) % 256]

Instant(hi, lo, nsec) == [hi |-> hi, lo |-> lo, nsec |-> nsec]

\* Whole seconds inside the unsigned 32-bit range: 0, 1700000000, 2^32 - 1.
ExpiresInRange == { Instant(0, 0, 0), Instant(25939, 61696, 0), Instant(65535, 65535, 0) }

\* Instants outside it: one second before the epoch, 2^32 seconds, and
\* 1700000000.5 seconds; half a second before the epoch, 2^32 + 5 seconds,
\* one nanosecond after the epoch, and the zero time.Time (year 1,
\* -62135596800 seconds).
ExpiresOutOfRange ==
    { Instant(-1, 65535, 0), Instant(65536, 0, 0), Instant(25939, 61696, 500000000),
      Instant(-1, 65535, 500000000), Instant(65536, 5, 0), Instant(0, 0, 1),
      Instant(-948114, 2304, 0) }

\* Field lengths that match no entry of the table.
OddLens == {0, 1, 33}

\* An authorization issued for transient type t by a destination of type d.
Issued(e, t, d) ==
    OfflineSignature(e, t, Fill(SigTypeTable[t][1], 10), Fill(SigTypeTable[d][2], 200))

\* A structure built by direct field assignment.
Assigned(e, t, kl, sl) == OfflineSignature(e, t, Fill(kl, 10), Fill(sl, 200))

\* The longest block of the table: code 3 for both types.
MaxBlockLen == HeaderLen + SigTypeTable[3][1] + SigTypeTable[3][2]

NoRes == [ok |-> FALSE, called |-> FALSE]

OsIdle ==
    /\ sig = NilSig /\ data = << >> /\ res = NoRes /\ view = NoRes
    /\ reenc = NoRes
    /\ origin = [kind |-> "none", len |-> 0]

----------------------------------------------------------------------------
(* Mapping of github.com/go-i2p/common/data, as Options uses it            *)

\* Largest length a 1-byte length prefix can state.
MaxStringLen == 255

EqualsByte == 61      \* '=' 0x3D
SemicolonByte == 59   \* ';' 0x3B

\* data.ToI2PString: the length prefix followed by the content; an error
\* when the content is longer than 255 bytes.
ToI2PString(str) ==
    IF Len(str) > MaxStringLen
    THEN [ok |-> FALSE, str |-> << >>]
    ELSE [ok |-> TRUE, str |-> <<Len(str)>> \o str]

\* I2PString.Data(): the content, or an error when the length prefix is
\* missing or disagrees with the number of bytes that follow it.
I2PStringData(i2p) ==
    IF Len(i2p) = 0 \/ i2p[1] # Len(i2p) - 1
    THEN [ok |-> FALSE, str |-> << >>]
    ELSE [ok |-> TRUE, str |-> Tail(i2p)]

\* Raw byte order on strings (Go's < on strings), compared from index i on.
RECURSIVE StringLessFrom(_, _, _)
StringLessFrom(a, b, i) ==
    IF i > Len(a) THEN i <= Len(b)
    ELSE IF i > Len(b) THEN FALSE
    ELSE IF a[i] # b[i] THEN a[i] < b[i]
    ELSE StringLessFrom(a, b, i + 1)

StringLess(a, b) == StringLessFrom(a, b, 1)

\* The keys of a set in ascending raw byte order.
RECURSIVE SortedKeys(_)
SortedKeys(keys) ==
    IF keys = {} THEN << >>
    ELSE LET least == CHOOSE k \in keys : \A other \in keys \ {k} : StringLess(k, other)
         IN  <<least>> \o SortedKeys(keys \ {least})

NilMapping == [nil |-> TRUE]

\* One record on the wire: key string, '=', value string, ';'.
PairBytes(pair) == pair[1] \o <<EqualsByte>> \o pair[2] \o <<SemicolonByte>>

RECURSIVE PairsBytes(_)
PairsBytes(vals) ==
    IF vals = << >> THEN << >> ELSE PairBytes(Head(vals)) \o PairsBytes(Tail(vals))

\* data.ValuesToMapping: the size is the number of bytes of all records.
ValuesToMapping(vals) == [size |-> Len(PairsBytes(vals)), vals |-> vals]

\* Mapping.Data(): the 2-byte size and the records in the order held.
MappingData(mapping) == BEPutUint16(mapping.size) \o PairsBytes(mapping.vals)

\* The entries of a Go map that data.GoMapToMapping cannot convert, each with
\* the error it yields: the key is converted before the value.
TooLongErrors(values) ==
    { IF Len(k) > MaxStringLen THEN [kind |-> "KeyTooLong", key |-> k]
                               ELSE [kind |-> "ValueTooLong", key |-> k] :
      k \in { x \in DOMAIN values : Len(x) > MaxStringLen \/ Len(values[x]) > MaxStringLen } }

\* data.GoMapToMapping on a map all of whose entries convert: the records
\* sorted by key.
GoMapToMapping(values) ==
    LET keys == SortedKeys(DOMAIN values)
    IN  ValuesToMapping([i \in 1..Len(keys) |->
            << ToI2PString(keys[i]).str, ToI2PString(values[keys[i]]).str >>])

OptMalformedPair(offset) == [kind |-> "MalformedPair", offset |-> offset]

\* One length-prefixed string of the region starting at pos (0-based):
\* its bytes with the prefix, or a failure when it runs past the region.
ReadString(region, pos) ==
    IF pos >= Len(region) \/ pos + 1 + region[pos + 1] > Len(region)
    THEN [ok |-> FALSE, str |-> << >>, next |-> pos]
    ELSE [ok |-> TRUE,
          str |-> SubSeq(region, pos + 1, pos + 1 + region[pos + 1]),
          next |-> pos + 1 + region[pos + 1]]

\* The records of the size-delimited region, parsed from pos on.
RECURSIVE ReadMappingValues(_, _, _)
ReadMappingValues(region, pos, acc) ==
    IF pos >= Len(region) THEN [ok |-> TRUE, vals |-> acc, err |-> NoErr]
    ELSE
      LET key == ReadString(region, pos)
      IN  IF ~key.ok THEN [ok |-> FALSE, vals |-> << >>, err |-> OptMalformedPair(pos)]
          ELSE IF key.next >= Len(region) \/ region[key.next + 1] # EqualsByte
          THEN [ok |-> FALSE, vals |-> << >>, err |-> OptMalformedPair(key.next)]
          ELSE
            LET val == ReadString(region, key.next + 1)
            IN  IF ~val.ok
                THEN [ok |-> FALSE, vals |-> << >>, err |-> OptMalformedPair(key.next + 1)]
                ELSE IF val.next >= Len(region) \/ region[val.next + 1] # SemicolonByte
                THEN [ok |-> FALSE, vals |-> << >>, err |-> OptMalformedPair(val.next)]
                ELSE ReadMappingValues(region, val.next + 1,
                                       Append(acc, <<key.str, val.str>>))

\* data.ReadMapping on input of at least 2 bytes with a non-zero size: the
\* mapping and the bytes after the size-delimited region, or the errors.
ReadMapping(rawData) ==
    LET size == BEUint16(SubSeq(rawData, 1, 2))
    IN  IF Len(rawData) < 2 + size
        THEN [ok |-> FALSE, mapping |-> NilMapping, remainder |-> << >>,
              err |-> [kind |-> "SizeMismatch", need |-> 2 + size, got |-> Len(rawData)]]
        ELSE
          LET parsed == ReadMappingValues(SubSeq(rawData, 3, 2 + size), 0, << >>)
          IN  IF ~parsed.ok
              THEN [ok |-> FALSE, mapping |-> NilMapping, remainder |-> << >>,
                    err |-> parsed.err]
              ELSE [ok |-> TRUE,
                    mapping |-> [size |-> size, vals |-> parsed.vals],
                    remainder |-> SubSeq(rawData, 3 + size, Len(rawData)),
                    err |-> NoErr]

----------------------------------------------------------------------------
(* Options                                                                 *)

NilOptions == [nil |-> TRUE]
\* A Go map[string]string: nil, or the function kv from its keys to values.
NilMap == [nilmap |-> TRUE, kv |-> << >>]
GoMap(kv) == [nilmap |-> FALSE, kv |-> kv]
\* make(map[string]string)
EmptyMap == GoMap(<< >>)

\* The struct Options{mapping, values}.
Options(mapping, values) == [mapping |-> mapping, values |-> values]

EmptyOptions == Options(NilMapping, EmptyMap)

\* NewOptions(m): a copy of m; NilMap stands for a nil Go map.
NewOptions(m) == IF m.nilmap THEN EmptyOptions ELSE Options(NilMapping, GoMap(m.kv))

\* values[key] = value on a Go map.
MapSet(values, key, value) ==
    GoMap([k \in DOMAIN values.kv \cup {key} |-> IF k = key THEN value ELSE values.kv[k]])

\* The loop of OptionsFromBytes skipping every record with an empty value.
RECURSIVE ValuesOf_SkipEmptyValue(_, _)
ValuesOf_SkipEmptyValue(vals, values) ==
    IF vals = << >> THEN values
    ELSE LET key == I2PStringData(Head(vals)[1])
             val == I2PStringData(Head(vals)[2])
         IN  IF ~key.ok \/ ~val.ok \/ val.str = << >>
             THEN ValuesOf_SkipEmptyValue(Tail(vals), values)
             ELSE ValuesOf_SkipEmptyValue(Tail(vals), MapSet(values, key.str, val.str))

\* The loop of OptionsFromBytes keeping the first value of a repeated key.
RECURSIVE ValuesOf_KeepFirst(_, _)
ValuesOf_KeepFirst(vals, values) ==
    IF vals = << >> THEN values
    ELSE LET key == I2PStringData(Head(vals)[1])
             val == I2PStringData(Head(vals)[2])
         IN  IF ~key.ok \/ ~val.ok \/ key.str \in DOMAIN values.kv
             THEN ValuesOf_KeepFirst(Tail(vals), values)
             ELSE ValuesOf_KeepFirst(Tail(vals), MapSet(values, key.str, val.str))

\* The loop of OptionsFromBytes over mapping.Values(): later records
\* overwrite earlier ones, records whose strings do not convert are skipped.
RECURSIVE ValuesOf(_, _)
ValuesOf(vals, values) ==
    IF vals = << >> THEN values
    ELSE LET key == I2PStringData(Head(vals)[1])
             val == I2PStringData(Head(vals)[2])
         IN  IF ~key.ok \/ ~val.ok
             THEN ValuesOf(Tail(vals), values)
             ELSE ValuesOf(Tail(vals), MapSet(values, key.str, val.str))

OptFail(err) == [ok |-> FALSE, val |-> NilOptions, n |-> 0, err |-> err]

\* The count of consumed bytes of a successful OptionsFromBytes.
Consumed_ContentOnly(rawData, remainder) == Len(rawData) - Len(remainder) - 2

Consumed(rawData, remainder) == Len(rawData) - Len(remainder)

\* OptionsFromBytes that answers a parse error with an empty Options.
OptionsFromBytes_IgnoreErrs(rawData) ==
    IF Len(rawData) < 2
    THEN OptFail([kind |-> "TooShort", need |-> 2, got |-> Len(rawData)])
    ELSE IF BEUint16(SubSeq(rawData, 1, 2)) = 0
    THEN [ok |-> TRUE, val |-> Options(NilMapping, EmptyMap), n |-> 2, err |-> NoErr]
    ELSE
      LET read == ReadMapping(rawData)
      IN  IF ~read.ok
          THEN [ok |-> TRUE, val |-> Options(NilMapping, EmptyMap), n |-> 2, err |-> NoErr]
          ELSE [ok  |-> TRUE,
                val |-> Options(read.mapping, ValuesOf(read.mapping.vals, EmptyMap)),
                n   |-> Consumed(rawData, read.remainder),
                err |-> NoErr]

\* OptionsFromBytes reporting the whole buffer as consumed on the fast path.
OptionsFromBytes_ConsumeAll(rawData) ==
    IF Len(rawData) < 2
    THEN OptFail([kind |-> "TooShort", need |-> 2, got |-> Len(rawData)])
    ELSE IF BEUint16(SubSeq(rawData, 1, 2)) = 0
    THEN [ok |-> TRUE, val |-> Options(NilMapping, EmptyMap), n |-> Len(rawData), err |-> NoErr]
    ELSE
      LET read == ReadMapping(rawData)
      IN  IF ~read.ok THEN OptFail(read.err)
          ELSE [ok  |-> TRUE,
                val |-> Options(read.mapping, ValuesOf(read.mapping.vals, EmptyMap)),
                n   |-> Consumed(rawData, read.remainder),
                err |-> NoErr]

OptionsFromBytes(rawData) ==
    IF Len(rawData) < 2
    THEN OptFail([kind |-> "TooShort", need |-> 2, got |-> Len(rawData)])
    ELSE IF BEUint16(SubSeq(rawData, 1, 2)) = 0
    THEN [ok |-> TRUE, val |-> Options(NilMapping, EmptyMap), n |-> 2, err |-> NoErr]
    ELSE
      LET read == ReadMapping(rawData)
      IN  IF ~read.ok THEN OptFail(read.err)
          ELSE [ok  |-> TRUE,
                val |-> Options(read.mapping, ValuesOf(read.mapping.vals, EmptyMap)),
                n   |-> Consumed(rawData, read.remainder),
                err |-> NoErr]

IsNil(o) == o = NilOptions

\* len(o.values); a nil map has length 0.
NumValues(o) == Cardinality(DOMAIN o.values.kv)

EmptyMappingBytes == <<0, 0>>

\* Bytes() that encodes an empty mapping when an entry is too long.
OptBytes_DropTooLong(o) ==
    IF IsNil(o) \/ NumValues(o) = 0
    THEN { [ok |-> TRUE, bytes |-> EmptyMappingBytes, err |-> NoErr] }
    ELSE IF o.mapping # NilMapping
    THEN { [ok |-> TRUE, bytes |-> MappingData(o.mapping), err |-> NoErr] }
    ELSE IF TooLongErrors(o.values.kv) # {}
    THEN { [ok |-> TRUE, bytes |-> EmptyMappingBytes, err |-> NoErr] }
    ELSE { [ok |-> TRUE, bytes |-> MappingData(GoMapToMapping(o.values.kv)), err |-> NoErr] }

\* (o *Options) Bytes(): the set of results the call can return.  More than
\* one only when several entries are too long, as the map is walked in no
\* fixed order.
OptBytes(o) ==
    IF IsNil(o) \/ NumValues(o) = 0
    THEN { [ok |-> TRUE, bytes |-> EmptyMappingBytes, err |-> NoErr] }
    ELSE IF o.mapping # NilMapping
    THEN { [ok |-> TRUE, bytes |-> MappingData(o.mapping), err |-> NoErr] }
    ELSE IF TooLongErrors(o.values.kv) # {}
    THEN { [ok |-> FALSE, bytes |-> << >>, err |-> e] : e \in TooLongErrors(o.values.kv) }
    ELSE { [ok |-> TRUE, bytes |-> MappingData(GoMapToMapping(o.values.kv)), err |-> NoErr] }

\* Len() that leaves out the size field when a parsed mapping is held.
OptLen_NoSizeField(o) ==
    IF IsNil(o) \/ NumValues(o) = 0 THEN 2
    ELSE IF o.mapping # NilMapping THEN o.mapping.size
    ELSE LET r == CHOOSE x \in OptBytes(o) : TRUE
         IN  IF ~r.ok THEN 2 ELSE Len(r.bytes)

\* (o *Options) Len()
OptLen(o) ==
    IF IsNil(o) \/ NumValues(o) = 0 THEN 2
    ELSE IF o.mapping # NilMapping THEN Len(MappingData(o.mapping))
    ELSE LET r == CHOOSE x \in OptBytes(o) : TRUE
         IN  IF ~r.ok THEN 2 ELSE Len(r.bytes)

\* (o *Options) IsEmpty()
OptIsEmpty(o) == IsNil(o) \/ NumValues(o) = 0

\* (o *Options) Get(key)
OptGet(o, key) ==
    IF IsNil(o) \/ o.values.nilmap THEN << >>
    ELSE IF key \in DOMAIN o.values.kv THEN o.values.kv[key] ELSE << >>

\* (o *Options) Has(key)
OptHas(o, key) ==
    IF IsNil(o) \/ o.values.nilmap THEN FALSE ELSE key \in DOMAIN o.values.kv

\* (o *Options) ToMap()
OptToMap(o) ==
    IF IsNil(o) \/ o.values.nilmap THEN EmptyMap ELSE GoMap(o.values.kv)

\* Handing out the map itself instead of a copy of it.
MapCopied_SameMap(values) == [shared |-> TRUE, map |-> values]

\* make(map[string]string, len(values)) filled by a loop over values: a new
\* map with the same entries, sharing nothing with values.
MapCopied(values) == [shared |-> FALSE, map |-> GoMap(values.kv)]

\* Whether the map ToMap() returns is the map o holds.
ToMapShares(o) ==
    IF IsNil(o) \/ o.values.nilmap THEN FALSE ELSE MapCopied(o.values).shared

\* Whether the Options made by NewOptions(m) holds m itself.
NewOptionsShares(m) ==
    IF m.nilmap THEN FALSE ELSE MapCopied(m).shared

\* Reading o.values through a nil *Options: nil pointer dereference.
NilDereference == [panic |-> TRUE]

\* Set() that leaves the parsed mapping in place.
OptSet_KeepMapping(o, key, value) ==
    IF IsNil(o) THEN NilDereference
    ELSE Options(o.mapping,
                 MapSet(IF o.values.nilmap THEN EmptyMap ELSE o.values, key, value))

\* (o *Options) Set(key, value): the instance after the call.
OptSet(o, key, value) ==
    IF IsNil(o) THEN NilDereference
    ELSE Options(NilMapping,
                 MapSet(IF o.values.nilmap THEN EmptyMap ELSE o.values, key, value))

\* The memory of the mapping that data.ReadMapping returns and Options
\* keeps: its strings are copies, not slices of rawData.
MappingMemory == [shared |-> FALSE]

\* The records vals as slices of the input at their places, the first at
\* pos (0-based), read when the input holds buf.
RECURSIVE Reslice(_, _, _)
Reslice(vals, buf, pos) ==
    IF vals = << >> THEN << >>
    ELSE LET kl == Len(Head(vals)[1])
             vl == Len(Head(vals)[2])
         IN  << << SubSeq(buf, pos + 1, pos + kl),
                   SubSeq(buf, pos + kl + 2, pos + kl + 1 + vl) >> >>
               \o Reslice(Tail(vals), buf, pos + kl + vl + 2)

\* The decoded Options o as read when the input buffer now holds buf.  The
\* keys and values of o.values are Go strings made by Data(), which share
\* no memory with the input.
OptThrough(o, buf) ==
    Options(IF o.mapping # NilMapping /\ MappingMemory.shared
            THEN [size |-> o.mapping.size, vals |-> Reslice(o.mapping.vals, buf, 2)]
            ELSE o.mapping,
            o.values)

OptIdle ==
    /\ opts = NilOptions /\ raw = << >>
    /\ ores = NoRes /\ oenc = NoRes /\ olast = [op |-> "none"]
    /\ oview = NoRes

----------------------------------------------------------------------------
(* I2PAddr                                                                 *)

\* A nil *I2PAddr.
NilAddr == [nil |-> TRUE]

\* The struct I2PAddr{Destination, Port}; strings are sequences of bytes.
I2PAddr(destination, port) == [Destination |-> destination, Port |-> port]

\* The separator ":" and the characters "0".."9".
ColonChar == 58
ZeroChar == 48
DigitChars == ZeroChar..(ZeroChar + 9)

\* The largest value of 16 bits, the bitSize given to strconv.ParseUint.
MaxUint16 == Limb - 1

\* Index of the first sep in s from i on, 0 when there is none.
RECURSIVE IndexFrom(_, _, _)
IndexFrom(s, sep, i) ==
    IF i > Len(s) THEN 0
    ELSE IF s[i] = sep THEN i
    ELSE IndexFrom(s, sep, i + 1)

\* strings.Split(s, sep) for a one-byte separator: the pieces between the
\* occurrences of sep; always at least one piece.
RECURSIVE StringsSplit(_, _)
StringsSplit(s, sep) ==
    LET i == IndexFrom(s, sep, 1)
    IN  IF i = 0 THEN << s >>
        ELSE << SubSeq(s, 1, i - 1) >> \o StringsSplit(SubSeq(s, i + 1, Len(s)), sep)

\* strings.Join(parts, sep)
RECURSIVE StringsJoin(_, _)
StringsJoin(parts, sep) ==
    IF parts = << >> THEN << >>
    ELSE IF Len(parts) = 1 THEN parts[1]
    ELSE parts[1] \o << sep >> \o StringsJoin(Tail(parts), sep)

\* The digit loop of strconv.ParseUint(s, 10, 16) from index i on, with n
\* the value of the digits before i.
RECURSIVE ParseDigits(_, _, _)
ParseDigits(s, i, n) ==
    IF i > Len(s) THEN [ok |-> TRUE, val |-> n, err |-> "none"]
    ELSE IF s[i] \notin DigitChars THEN [ok |-> FALSE, val |-> 0, err |-> "syntax"]
    ELSE LET n1 == n * 10 + (s[i] - ZeroChar)
         IN  IF n1 > MaxUint16 THEN [ok |-> FALSE, val |-> MaxUint16, err |-> "range"]
             ELSE ParseDigits(s, i + 1, n1)

\* strconv.ParseUint(s, 10, 16): no sign, no underscore, no empty string.
ParseUint(s) ==
    IF s = << >> THEN [ok |-> FALSE, val |-> 0, err |-> "syntax"]
    ELSE ParseDigits(s, 1, 0)

\* The text of fmt.Sprintf("%d", n) for n >= 0.
RECURSIVE FormatDec(_)
FormatDec(n) ==
    IF n < 10 THEN << ZeroChar + n >>
    ELSE Append(FormatDec(n \div 10), ZeroChar + (n % 10))

AddrFail(err) == [ok |-> FALSE, val |-> NilAddr, err |-> err]

\* ParseI2PAddr rejecting an empty port segment only.
ParseI2PAddr_AnyPort(s) ==
    IF s = << >> THEN AddrFail([kind |-> "EmptyAddress"])
    ELSE
      LET parts == StringsSplit(s, ColonChar)
      IN  IF Len(parts) = 1
          THEN [ok |-> TRUE, val |-> I2PAddr(parts[1], 0), err |-> NoErr]
          ELSE
            LET portStr == parts[Len(parts)]
                port    == ParseUint(portStr)
            IN  IF portStr = << >>
                THEN AddrFail([kind |-> "InvalidPort", segment |-> portStr])
                ELSE [ok  |-> TRUE,
                      val |-> I2PAddr(StringsJoin(SubSeq(parts, 1, Len(parts) - 1), ColonChar),
                                      port.val),
                      err |-> NoErr]

\* ParseI2PAddr(addr)
ParseI2PAddr(s) ==
    IF s = << >> THEN AddrFail([kind |-> "EmptyAddress"])
    ELSE
      LET parts == StringsSplit(s, ColonChar)
      IN  IF Len(parts) = 1
          THEN [ok |-> TRUE, val |-> I2PAddr(parts[1], 0), err |-> NoErr]
          ELSE
            LET portStr == parts[Len(parts)]
                port    == ParseUint(portStr)
            IN  IF ~port.ok
                THEN AddrFail([kind |-> "InvalidPort", segment |-> portStr])
                ELSE [ok  |-> TRUE,
                      val |-> I2PAddr(StringsJoin(SubSeq(parts, 1, Len(parts) - 1), ColonChar),
                                      port.val % Limb),
                      err |-> NoErr]

\* Number of leading bytes of a long destination that String() shows.
ShownLen == 16
\* The text "..."
Ellipsis == <<46, 46, 46>>

\* String() cutting a destination of 16 bytes as well.
AddrString_CutAt16(a) ==
    IF a = NilAddr THEN NilDereference
    ELSE IF a.Destination = << >> THEN << ColonChar >> \o FormatDec(a.Port)
    ELSE LET dest == IF Len(a.Destination) >= ShownLen
                     THEN SubSeq(a.Destination, 1, ShownLen) \o Ellipsis
                     ELSE a.Destination
         IN  dest \o << ColonChar >> \o FormatDec(a.Port)

\* (a *I2PAddr) String(); reading a.Destination through a nil receiver is a
\* nil pointer dereference.
AddrString(a) ==
    IF a = NilAddr THEN NilDereference
    ELSE IF a.Destination = << >> THEN << ColonChar >> \o FormatDec(a.Port)
    ELSE LET dest == IF Len(a.Destination) > ShownLen
                     THEN SubSeq(a.Destination, 1, ShownLen) \o Ellipsis
                     ELSE a.Destination
         IN  dest \o << ColonChar >> \o FormatDec(a.Port)

\* Equal() comparing the destinations only.
AddrEqual_IgnorePort(a, other) ==
    IF a = NilAddr \/ other = NilAddr THEN a = other
    ELSE a.Destination = other.Destination

\* (a *I2PAddr) Equal(other)
AddrEqual(a, other) ==
    IF a = NilAddr \/ other = NilAddr THEN a = other
    ELSE a.Destination = other.Destination /\ a.Port = other.Port

AddrIdle ==
    /\ addr = NilAddr /\ aother = NilAddr /\ alast = [op |-> "none"]

----------------------------------------------------------------------------

(* The offline-signature codec as a state machine                          *)

InitOfflineSignature ==
    /\ \/ \E e \in ExpiresInRange, t \in KnownSigTypes, d \in KnownSigTypes :
            sig = Issued(e, t, d)
       \/ \E t \in SigTypeCodes, kl \in OddLens \cup {32}, sl \in OddLens \cup {64} :
            sig = Assigned(Instant(0, 1, 0), t, kl, sl)
       \/ \E e \in ExpiresOutOfRange :
            sig = Issued(e, 7, 7)
    /\ origin = [kind |-> "none", len |-> 0]
    /\ data = << >>
    /\ res = NoRes
    /\ view = NoRes
    /\ reenc = NoRes
    /\ OptIdle
    /\ AddrIdle

\* The caller sizes a buffer with Len() and encodes with Bytes().
OsEncode ==
    /\ origin.kind = "none"
    /\ data' = OsBytes(sig)
    /\ origin' = [kind |-> "encoded", len |-> OsLen(sig)]
    /\ UNCHANGED <<sig, res, view, reenc, optVars, addrVars>>

\* Only the first n bytes of the block arrive.
OsTruncate(n) ==
    /\ origin.kind = "encoded"
    /\ n < Len(data)
    /\ data' = SubSeq(data, 1, n)
    /\ origin' = [origin EXCEPT !.kind = "prefix"]
    /\ res' = NoRes
    /\ view' = NoRes
    /\ reenc' = NoRes
    /\ UNCHANGED <<sig, optVars, addrVars>>

\* The block is followed by k payload bytes of value b.
OsTrail(k, b) ==
    /\ origin.kind = "encoded"
    /\ data' = data \o [i \in 1..k |-> b]
    /\ origin' = [origin EXCEPT !.kind = "trailing"]
    /\ res' = NoRes
    /\ view' = NoRes
    /\ reenc' = NoRes
    /\ UNCHANGED <<sig, optVars, addrVars>>

OsDecode(d) ==
    /\ origin.kind # "none"
    /\ res = NoRes
    /\ res' = [called |-> TRUE, d |-> d] @@ OfflineSignatureFromBytes(data, d)
    /\ UNCHANGED <<sig, data, origin, view, reenc, optVars, addrVars>>

\* After a successful decode the caller reuses its buffer: byte i of it is
\* overwritten, and the decoded fields are read again.
OsOverwrite(i) ==
    /\ res.called /\ res.ok
    /\ ~view.called
    /\ i \in 1..Len(data)
    /\ LET buf == Overwritten(data, i)
           mem == OsFieldMemory(data, res.d)
       IN  view' = [called |-> TRUE, ok |-> TRUE, at |-> i, buf |-> buf,
                    TransientPublicKey |->
                        ReadField(mem.TransientPublicKey, res.val.TransientPublicKey, buf),
                    Signature |->
                        ReadField(mem.Signature, res.val.Signature, buf)]
    /\ UNCHANGED <<sig, data, origin, res, reenc, optVars, addrVars>>

\* The caller re-encodes the decoded structure with Bytes(), to reproduce
\* the bytes the authorization signature was computed over.
OsReencode ==
    /\ res.called /\ res.ok
    /\ ~reenc.called
    /\ ~view.called
    /\ reenc' = [called |-> TRUE, ok |-> TRUE, bytes |-> OsBytes(res.val),
                 len |-> OsLen(res.val)]
    /\ UNCHANGED <<sig, data, origin, res, view, optVars, addrVars>>

\* The places of the input a caller's overwrite is tried at: the first byte,
\* the first and last byte of the key, the first and last byte of the
\* signature, and the last byte of the buffer.
OsOverwriteAt ==
    {1, HeaderLen + 1, res.n - Len(res.val.Signature),
     res.n - Len(res.val.Signature) + 1, res.n, Len(data)}

NextOfflineSignature ==
    \/ OsEncode
    \/ \E n \in 0..MaxBlockLen : OsTruncate(n)
    \/ \E k \in 1..MaxTrailing, b \in {0, 255} : OsTrail(k, b)
    \/ \E d \in SigTypeCodes : OsDecode(d)
    \/ res.called /\ res.ok /\ \E i \in OsOverwriteAt : OsOverwrite(i)
    \/ OsReencode

SpecOfflineSignature == InitOfflineSignature /\ [][NextOfflineSignature]_vars

----------------------------------------------------------------------------
(* Inputs of the options scenarios                                         *)

\* Largest number of entries the caller puts in one Options.
MaxPairs == 2
\* Largest number of records in a block the caller receives.
MaxRecords == 2

StrEmpty == << >>
StrA == <<97>>
StrB == <<98>>
StrAB == <<97, 98>>
Str1 == <<49>>
\* Strings of exactly 255 and 256 bytes.
Str255 == [i \in 1..MaxStringLen |-> 107]
Str256 == [i \in 1..(MaxStringLen + 1) |-> 107]

\* Keys and values of the maps handed to NewOptions.
KeyInputs == {StrA, StrB, StrAB, Str255, Str256}
ValueInputs == {StrEmpty, Str1, Str255, Str256}
\* Keys and values of the Set calls.
SetKeyInputs == {StrA, StrB, StrAB, Str256}
SetValueInputs == {StrEmpty, Str1, Str256}

\* Every Go map of at most MaxPairs entries over the input strings.
MapInputs ==
    UNION { [ks -> ValueInputs] : ks \in { x \in SUBSET KeyInputs : Cardinality(x) <= MaxPairs } }

\* The arguments of NewOptions: those maps, and the nil map.
NewOptionsInputs == { GoMap(kv) : kv \in MapInputs } \cup {NilMap}

\* The records a received block is made of.
RecordInputs == { << ToI2PString(k).str, ToI2PString(v).str >> : k \in {StrA, StrB}, v \in {StrEmpty, Str1} }

RECURSIVE SeqsUpTo(_, _)
SeqsUpTo(S, n) ==
    IF n = 0 THEN { << >> }
    ELSE LET shorter == SeqsUpTo(S, n - 1)
         IN  shorter \cup { Append(q, x) : q \in shorter, x \in S }

\* A well-formed block: the size field and the records, in the order given.
Wire(records) == MappingData(ValuesToMapping(records))

WellFormedInputs == { Wire(records) : records \in SeqsUpTo(RecordInputs, MaxRecords) }

CorruptBytes == {0, 1, EqualsByte, SemicolonByte}

\* What a caller may receive: well-formed blocks, blocks with one byte
\* overwritten, cut short, or followed by one more byte.
ReceivedInputs ==
    UNION { {w}
              \cup { [w EXCEPT ![i] = b] : i \in 1..Len(w), b \in CorruptBytes }
              \cup { SubSeq(w, 1, n) : n \in 0..(Len(w) - 1) }
              \cup { Append(w, b) : b \in CorruptBytes }
            : w \in WellFormedInputs }

----------------------------------------------------------------------------
(* The options codec as a state machine                                    *)

InitOptions ==
    /\ OsIdle
    /\ OptIdle
    /\ AddrIdle

Constructed == olast.op # "none"
\* The helpers that only return a value; a scenario ends with one of them.
QueryOps == {"Get", "Has", "IsEmpty", "ToMap", "Len"}
Queried == olast.op \in QueryOps \cup {"CallerWrite"}
BufferFree == raw = << >> /\ ~ores.called

\* opts := EmptyOptions()
OptEmptyOptions ==
    /\ ~Constructed /\ BufferFree /\ ~oenc.called
    /\ opts' = EmptyOptions
    /\ olast' = [op |-> "EmptyOptions"]
    /\ UNCHANGED <<raw, ores, oenc, oview, osVars, addrVars>>

\* opts := NewOptions(m)
OptNewOptions(m) ==
    /\ ~Constructed /\ BufferFree /\ ~oenc.called
    /\ opts' = NewOptions(m)
    /\ olast' = [op |-> "NewOptions", arg |-> m]
    /\ UNCHANGED <<raw, ores, oenc, oview, osVars, addrVars>>

\* opts.Set(key, value)
OptSetCall(key, value) ==
    /\ BufferFree /\ ~oenc.called /\ ~Queried
    /\ IF IsNil(opts) THEN TRUE ELSE (NumValues(opts) < MaxPairs \/ OptHas(opts, key))
    /\ LET after == OptSet(opts, key, value)
       IN  /\ opts' = IF after = NilDereference THEN opts ELSE after
           /\ olast' = [op |-> "Set", nilrecv |-> IsNil(opts), key |-> key, value |-> value,
                        before |-> OptToMap(opts),
                        cached |-> IF IsNil(opts) THEN FALSE ELSE opts.mapping # NilMapping,
                        stale |-> { r.bytes : r \in { x \in OptBytes(opts) : x.ok } },
                        panicked |-> after = NilDereference]
    /\ oenc' = NoRes
    /\ UNCHANGED <<raw, ores, oview, osVars, addrVars>>

\* opts.Bytes()
OptBytesCall ==
    /\ BufferFree /\ ~Queried
    /\ ~oenc.called
    /\ \E r \in OptBytes(opts) : oenc' = [called |-> TRUE] @@ r
    /\ olast' = [op |-> "Bytes", nilrecv |-> IsNil(opts),
                 after |-> IF olast.op = "Set" THEN olast ELSE [op |-> olast.op]]
    /\ UNCHANGED <<opts, raw, ores, oview, osVars, addrVars>>

\* A call of a helper that returns a value: Get, Has, IsEmpty, ToMap, Len.
OptQuery(op, key) ==
    /\ BufferFree
    /\ ~oenc.called /\ ~Queried
    /\ olast' = [op |-> op, nilrecv |-> IsNil(opts), key |-> key,
                 ret |-> CASE op = "Get"     -> OptGet(opts, key)
                           [] op = "Has"     -> OptHas(opts, key)
                           [] op = "IsEmpty" -> OptIsEmpty(opts)
                           [] op = "ToMap"   -> OptToMap(opts)
                           [] op = "Len"     -> OptLen(opts)]
    /\ UNCHANGED <<opts, raw, ores, oenc, oview, osVars, addrVars>>

\* The caller writes m[key] = value on a map it holds: the map ToMap() has
\* just returned, or the map it has just passed to NewOptions.
OptCallerWrite(key, value) ==
    /\ BufferFree /\ ~oenc.called
    /\ olast.op \in {"ToMap", "NewOptions"}
    /\ olast.op = "NewOptions" => ~olast.arg.nilmap
    /\ LET held   == IF olast.op = "ToMap" THEN olast.ret ELSE olast.arg
           shares == IF olast.op = "ToMap" THEN ToMapShares(opts)
                                           ELSE NewOptionsShares(olast.arg)
       IN  /\ opts' = IF shares
                      THEN Options(opts.mapping, MapSet(opts.values, key, value))
                      ELSE opts
           /\ olast' = [op |-> "CallerWrite", on |-> olast.op,
                        key |-> key, value |-> value,
                        map |-> MapSet(held, key, value)]
    /\ UNCHANGED <<raw, ores, oenc, oview, osVars, addrVars>>

\* The bytes of the last Bytes() call are handed over for decoding.
OptSend ==
    /\ BufferFree
    /\ oenc.called /\ oenc.ok
    /\ raw' = oenc.bytes
    /\ UNCHANGED <<opts, ores, oenc, olast, oview, osVars, addrVars>>

\* Bytes arrive from outside.
OptReceive(w) ==
    /\ ~Constructed /\ BufferFree /\ ~oenc.called
    /\ raw' = w
    /\ UNCHANGED <<opts, ores, oenc, olast, oview, osVars, addrVars>>

\* OptionsFromBytes(raw)
OptFromBytesCall ==
    /\ ~ores.called
    /\ raw # << >>
    /\ ores' = [called |-> TRUE] @@ OptionsFromBytes(raw)
    /\ UNCHANGED <<opts, raw, oenc, olast, oview, osVars, addrVars>>

\* The caller keeps the decoded instance and releases the input buffer.
OptAdopt ==
    /\ ~Constructed
    /\ ores.called /\ ores.ok
    /\ opts' = ores.val
    /\ olast' = [op |-> "OptionsFromBytes"]
    /\ raw' = << >>
    /\ ores' = NoRes
    /\ oenc' = NoRes
    /\ oview' = NoRes
    /\ UNCHANGED <<osVars, addrVars>>

\* After a successful decode the caller reuses its buffer: byte i of it is
\* overwritten, and Get, ToMap and Bytes are called on the decoded Options.
OptOverwrite(i) ==
    /\ ores.called /\ ores.ok
    /\ ~oview.called
    /\ i \in 1..Len(raw)
    /\ LET buf   == Overwritten(raw, i)
           after == OptThrough(ores.val, buf)
       IN  oview' = [called |-> TRUE, ok |-> TRUE, at |-> i, buf |-> buf,
                     Get   |-> [k \in {StrA, StrB} |-> OptGet(after, k)],
                     ToMap |-> OptToMap(after),
                     Bytes |-> OptBytes(after)]
    /\ UNCHANGED <<opts, raw, ores, oenc, olast, osVars, addrVars>>

\* The places of the input a caller's overwrite is tried at: the size
\* field, the length prefix and the first byte of the first key, and the
\* last byte of the block and of the buffer.
OptOverwriteAt ==
    {2, 3, 4, ores.n, Len(raw)} \cap 1..Len(raw)

NextOptions ==
    \/ OptEmptyOptions
    \/ ~Constructed /\ \E m \in NewOptionsInputs : OptNewOptions(m)
    \/ \E k \in SetKeyInputs, v \in SetValueInputs : OptSetCall(k, v)
    \/ OptBytesCall
    \/ \E k \in KeyInputs : OptQuery("Get", k) \/ OptQuery("Has", k)
    \/ \E op \in QueryOps \ {"Get", "Has"} : OptQuery(op, StrEmpty)
    \/ \E k \in {StrA, StrB}, v \in {StrEmpty, Str1} : OptCallerWrite(k, v)
    \/ OptSend
    \/ ~Constructed /\ \E w \in ReceivedInputs : OptReceive(w)
    \/ OptFromBytesCall
    \/ ores.called /\ ores.ok /\ \E i \in OptOverwriteAt : OptOverwrite(i)
    \/ OptAdopt

SpecOptions == InitOptions /\ [][NextOptions]_vars

----------------------------------------------------------------------------
(* Properties of the offline-signature codec                               *)

\* o is a valid OfflineSignature for a destination of signature type d.
ValidFor(o, d) ==
    /\ InTable(o.TransientSigType) /\ InTable(d)
    /\ Len(o.TransientPublicKey) = SigTypeTable[o.TransientSigType][1]
    /\ Len(o.Signature) = SigTypeTable[d][2]

\* t is a whole number of seconds in the unsigned 32-bit range.
WholeSecondsU32(t) == t.nsec = 0 /\ t.hi >= 0 /\ t.hi < Limb

Decoded(kind) == origin.kind = kind /\ res.called

\* C1: decoding the encoding of a valid OfflineSignature with an in-range
\* whole-second expiry succeeds, returns a value equal to the original in all
\* four fields, and consumes exactly the encoded length.
C1_OfflineSignatureRoundTrip ==
    (Decoded("encoded") /\ ValidFor(sig, res.d) /\ WholeSecondsU32(sig.Expires))
        => /\ res.ok
           /\ res.val.Expires = sig.Expires
           /\ res.val.TransientSigType = sig.TransientSigType
           /\ res.val.TransientPublicKey = sig.TransientPublicKey
           /\ res.val.Signature = sig.Signature
           /\ res.n = Len(data)

\* A DSA transient key authorized by an ECDSA-P521 destination, expiring at
\* 2^32 - 1 seconds, has been encoded and decoded.
C1_Witness ==
    /\ Decoded("encoded") /\ ValidFor(sig, res.d) /\ res.ok
    /\ sig.TransientSigType = 0 /\ res.d = 3
    /\ sig.Expires = Instant(65535, 65535, 0)

\* C7: every proper prefix of a valid encoded block fails with TooShort
\* without reading at or beyond the end of the prefix; from 6 bytes on the
\* error reports the required total and the actual length.
C7_TruncationTooShort ==
    (Decoded("prefix") /\ ValidFor(sig, res.d))
        => /\ ~res.ok
           /\ res.err.kind = "TooShort"
           /\ res.touched <= Len(data)
           /\ Len(data) >= 6 =>
                /\ res.err.need = 6 + SigTypeTable[sig.TransientSigType][1]
                                    + SigTypeTable[res.d][2]
                /\ res.err.got = Len(data)

\* A 174-byte DSA block cut one byte short, and decoded.
C7_Witness ==
    /\ Decoded("prefix") /\ ValidFor(sig, res.d)
    /\ sig.TransientSigType = 0 /\ res.d = 0
    /\ Len(data) = 173

\* C8: on an input of at least 6 bytes, an unknown transient code fails with
\* UnknownSigType naming it, whatever the destination code and the length;
\* otherwise an unknown destination code fails with UnknownSigType naming
\* it; no unknown code is accepted as a zero-length field.
C8_UnknownSigType ==
    (res.called /\ Len(data) >= 6)
        => LET t == BEUint16(SubSeq(data, 5, 6))
           IN  /\ ~InTable(t) =>
                    /\ ~res.ok
                    /\ res.err = [kind |-> "UnknownSigType", role |-> "transient", code |-> t]
               /\ (InTable(t) /\ ~InTable(res.d)) =>
                    /\ ~res.ok
                    /\ res.err = [kind |-> "UnknownSigType", role |-> "destination",
                                  code |-> res.d]

\* A 6-byte input carrying transient code 4 has been decoded with a known
\* destination code.
C8_Witness ==
    /\ res.called /\ Len(data) = 6
    /\ BEUint16(SubSeq(data, 5, 6)) = 4
    /\ res.d = 7

\* C9: a successful decode takes expires from bytes [0,4), the key from the
\* next pubKeyLen(t) bytes and the signature from the following sigLen(d)
\* bytes with the lengths of the stated table, consumes 6 + pubKeyLen(t) +
\* sigLen(d) bytes, and depends on no byte beyond that total.
C9_TableDrivenDecode ==
    (res.called /\ res.ok)
        => LET t  == BEUint16(SubSeq(data, 5, 6))
               pk == SigTypeTable[t][1]
               sl == SigTypeTable[res.d][2]
           IN  /\ InTable(t) /\ InTable(res.d)
               /\ Len(data) >= 6 + pk + sl
               /\ res.val.TransientSigType = t
               /\ res.val.Expires = Instant(data[1] * 256 + data[2],
                                            data[3] * 256 + data[4], 0)
               /\ res.val.TransientPublicKey = SubSeq(data, 7, 6 + pk)
               /\ res.val.Signature = SubSeq(data, 7 + pk, 6 + pk + sl)
               /\ res.n = 6 + pk + sl
               /\ (t = 7 /\ res.d = 7) => res.n = 102
               /\ (t = 0 /\ res.d = 0) => res.n = 174
               /\ \A b \in {0, 255} :
                    OfflineSignatureFromBytes(SubSeq(data, 1, res.n) \o <<b>>, res.d)
                        = [x \in {"ok", "val", "n", "err", "touched"} |-> res[x]]

\* A DSA block followed by payload bytes has been decoded.
C9_Witness ==
    /\ Decoded("trailing") /\ res.ok
    /\ res.val.TransientSigType = 0 /\ res.d = 0
    /\ Len(data) = 176

\* C10: Bytes() of any OfflineSignature is 6 + len(key) + len(signature)
\* bytes: big-endian 32-bit expires seconds, big-endian 16-bit type, key,
\* signature; and Len() equals the length of Bytes().
C10_EncodeLayout ==
    (origin.kind = "encoded")
        => LET kl == Len(sig.TransientPublicKey)
               sl == Len(sig.Signature)
               hi == sig.Expires.hi % Limb
           IN  /\ Len(data) = 6 + kl + sl
               /\ SubSeq(data, 1, 4) = << hi \div 256, hi % 256,
                                          sig.Expires.lo \div 256, sig.Expires.lo % 256 >>
               /\ SubSeq(data, 5, 6) = << sig.TransientSigType \div 256,
                                          sig.TransientSigType % 256 >>
               /\ SubSeq(data, 7, 6 + kl) = sig.TransientPublicKey
               /\ SubSeq(data, 7 + kl, 6 + kl + sl) = sig.Signature
               /\ origin.len = Len(data)

\* A structure whose field lengths (33 and 1) match no signature type has
\* been encoded.
C10_Witness ==
    /\ origin.kind = "encoded"
    /\ Len(sig.TransientPublicKey) = 33 /\ Len(sig.Signature) = 1
    /\ sig.TransientSigType = 255

----------------------------------------------------------------------------
(* Both codecs: a caller runs one of the two scenarios                     *)

Init == InitOfflineSignature \/ InitOptions

Next ==
    \/ sig # NilSig /\ NextOfflineSignature
    \/ sig = NilSig /\ NextOptions

Spec == Init /\ [][Next]_vars

----------------------------------------------------------------------------
(* Properties of the options codec                                         *)

\* Every key and every value of kv is at most 255 bytes.
AllShort(kv) == \A k \in DOMAIN kv : Len(k) <= 255 /\ Len(kv[k]) <= 255

\* The records of a block b, read after its 2-byte size field.
RecordsOf(b) == ReadMappingValues(SubSeq(b, 3, Len(b)), 0, << >>)

\* b is the canonical encoding of kv: the size field, then exactly one
\* record per key of kv, keys strictly ascending in raw byte order.
Canonical(b, kv) ==
    /\ Len(b) >= 2
    /\ BEUint16(SubSeq(b, 1, 2)) = Len(b) - 2
    /\ LET recs == RecordsOf(b)
       IN  /\ recs.ok
           /\ Len(recs.vals) = Cardinality(DOMAIN kv)
           /\ \A i \in 1..Len(recs.vals) :
                /\ Tail(recs.vals[i][1]) \in DOMAIN kv
                /\ Tail(recs.vals[i][2]) = kv[Tail(recs.vals[i][1])]
                /\ recs.vals[i][1][1] = Len(recs.vals[i][1]) - 1
                /\ recs.vals[i][2][1] = Len(recs.vals[i][2]) - 1
           /\ \A i \in 1..(Len(recs.vals) - 1) :
                StringLess(Tail(recs.vals[i][1]), Tail(recs.vals[i + 1][1]))

\* C2: an Options whose keys and values are all at most 255 bytes encodes
\* without error, and decoding the encoding succeeds with the same map and
\* consumes the whole encoding, whatever the order of insertion.
C2_OptionsRoundTrip ==
    /\ (oenc.called /\ ~IsNil(opts) /\ AllShort(opts.values.kv)) => oenc.ok
    /\ (oenc.called /\ oenc.ok /\ ores.called /\ raw = oenc.bytes)
          => /\ ores.ok
             /\ OptToMap(ores.val) = OptToMap(opts)
             /\ ores.n = Len(oenc.bytes)

\* "b" was set before "a", the value of "a" is empty, and the encoding has
\* been decoded again.
C2_Witness ==
    /\ oenc.called /\ oenc.ok /\ ores.called /\ raw = oenc.bytes
    /\ olast.op = "Bytes" /\ olast.after.op = "Set"
    /\ olast.after.key = StrA /\ olast.after.value = StrEmpty
    /\ DOMAIN olast.after.before.kv = {StrB}
    /\ DOMAIN OptToMap(ores.val).kv = {StrA, StrB}

\* C3: whenever Bytes() succeeds on a non-empty Options, however it was
\* obtained, the output is the size field followed by exactly one record per
\* key, keys strictly ascending in raw byte order.
C3_CanonicalEncoding ==
    (oenc.called /\ oenc.ok /\ ~IsNil(opts) /\ NumValues(opts) > 0)
        => Canonical(oenc.bytes, opts.values.kv)

\* C4: the Bytes() call that follows Set(k, v) encodes the collection as it
\* is after the Set: k maps to v, every other key keeps its value, and when
\* the Set changed the collection the bytes are not those of before it.
C4_SetInvalidatesCache ==
    (olast.op = "Bytes" /\ olast.after.op = "Set" /\ ~olast.after.panicked /\ oenc.ok)
        => LET set    == olast.after
               before == set.before.kv
               dec    == OptionsFromBytes(oenc.bytes)
           IN  /\ dec.ok
               /\ LET m == OptToMap(dec.val).kv
                  IN  /\ DOMAIN m = DOMAIN before \cup {set.key}
                      /\ m[set.key] = set.value
                      /\ \A k \in DOMAIN before \ {set.key} : m[k] = before[k]
               /\ (set.key \notin DOMAIN before \/ before[set.key] # set.value)
                      => oenc.bytes \notin set.stale

\* A decoded instance, which holds its parsed mapping, had the value of one
\* of its keys changed by Set, and was encoded.
C4_Witness ==
    /\ olast.op = "Bytes" /\ olast.after.op = "Set" /\ oenc.ok
    /\ olast.after.cached
    /\ olast.after.key \in DOMAIN olast.after.before.kv
    /\ olast.after.before.kv[olast.after.key] # olast.after.value

\* C5: Get, Set, Has, IsEmpty, ToMap, Len and Bytes on an absent Options
\* complete without failing and treat it as empty.
C5_AbsentInstanceSafety ==
    (olast.op \in QueryOps \cup {"Set", "Bytes"} /\ olast.nilrecv)
        => CASE olast.op = "IsEmpty" -> olast.ret = TRUE
             [] olast.op = "Get"     -> olast.ret = << >>
             [] olast.op = "Has"     -> olast.ret = FALSE
             [] olast.op = "ToMap"   -> ~olast.ret.nilmap /\ DOMAIN olast.ret.kv = {}
             [] olast.op = "Len"     -> olast.ret = 2
             [] olast.op = "Bytes"   -> oenc.ok /\ oenc.bytes = <<0, 0>> /\ oenc.err = NoErr
             [] olast.op = "Set"     -> ~olast.panicked

\* C6: a decode either fails with no value and 0 bytes consumed, or succeeds
\* with a complete value: an OfflineSignature with both fields in full, an
\* Options holding the key of every record of the size-delimited region with
\* the value of the last record of that key.
C6_NoPartialDecode ==
    /\ res.called =>
         IF res.ok
         THEN /\ res.err = NoErr
              /\ res.val # NilSig
              /\ InTable(res.val.TransientSigType) /\ InTable(res.d)
              /\ Len(res.val.TransientPublicKey) = SigTypeTable[res.val.TransientSigType][1]
              /\ Len(res.val.Signature) = SigTypeTable[res.d][2]
              /\ res.n = 6 + Len(res.val.TransientPublicKey) + Len(res.val.Signature)
         ELSE /\ res.val = NilSig /\ res.n = 0
              /\ res.err.kind \in {"TooShort", "UnknownSigType"}
    /\ ores.called =>
         IF ores.ok
         THEN /\ ores.err = NoErr
              /\ ~IsNil(ores.val)
              /\ LET size == BEUint16(SubSeq(raw, 1, 2))
                     recs == RecordsOf(SubSeq(raw, 1, 2 + size))
                     kv   == ores.val.values.kv
                 IN  /\ Len(raw) >= 2 + size
                     /\ recs.ok
                     /\ DOMAIN kv = { Tail(recs.vals[i][1]) : i \in 1..Len(recs.vals) }
                     /\ \A i \in 1..Len(recs.vals) :
                          (\A j \in (i + 1)..Len(recs.vals) : recs.vals[j][1] # recs.vals[i][1])
                              => kv[Tail(recs.vals[i][1])] = Tail(recs.vals[i][2])
         ELSE /\ ores.val = NilOptions /\ ores.n = 0
              /\ ores.err.kind \in {"TooShort", "SizeMismatch", "MalformedPair"}

\* C6 as stated: a successful OptionsFromBytes result contains every
\* key/value record of the size-delimited region, none is dropped.
C6_EveryRecordKept ==
    (ores.called /\ ores.ok)
        => LET size == BEUint16(SubSeq(raw, 1, 2))
               recs == RecordsOf(SubSeq(raw, 1, 2 + size))
           IN  \A i \in 1..Len(recs.vals) :
                 /\ OptHas(ores.val, Tail(recs.vals[i][1]))
                 /\ OptGet(ores.val, Tail(recs.vals[i][1])) = Tail(recs.vals[i][2])

\* A block whose two records both have the key "a", with values "1" and "",
\* has been decoded.
C6_Witness ==
    /\ ores.called /\ ores.ok
    /\ raw = Wire(<< <<ToI2PString(StrA).str, ToI2PString(Str1).str>>,
                     <<ToI2PString(StrA).str, ToI2PString(StrEmpty).str>> >>)
    /\ NumValues(ores.val) = 1
    /\ OptGet(ores.val, StrA) = StrEmpty


\* The declared size of the received block: the big-endian u16 of bytes [0,2).
DeclaredSize == BEUint16(SubSeq(raw, 1, 2))

\* C11: a successful OptionsFromBytes consumes 2 + size bytes, whatever the
\* number of records and whatever follows the block; with size 0 the result
\* is an empty mapping and 2 bytes are consumed.
C11_BytesConsumed ==
    (ores.called /\ ores.ok)
        => /\ ores.n = 2 + DeclaredSize
           /\ DeclaredSize = 0 => (ores.n = 2 /\ OptIsEmpty(ores.val))
           /\ LET alone == OptionsFromBytes(SubSeq(raw, 1, 2 + DeclaredSize))
              IN  alone.ok /\ alone.n = ores.n /\ alone.val = ores.val

\* A block of size 0 followed by one more byte has been decoded.
C11_Witness ==
    /\ ores.called /\ ores.ok
    /\ DeclaredSize = 0 /\ Len(raw) = 3


\* The record grammar: from pos (0-based) on, region is a run of records
\* len(key), key, '=', len(value), value, ';' that ends exactly at its end.
RECURSIVE RecordGrammar(_, _)
RecordGrammar(region, pos) ==
    IF pos = Len(region) THEN TRUE
    ELSE /\ pos + 1 <= Len(region)
         /\ LET kl == region[pos + 1]
            IN  /\ pos + kl + 2 <= Len(region)
                /\ region[pos + kl + 2] = EqualsByte
                /\ pos + kl + 3 <= Len(region)
                /\ LET vl == region[pos + kl + 3]
                   IN  /\ pos + kl + vl + 4 <= Len(region)
                       /\ region[pos + kl + vl + 4] = SemicolonByte
                       /\ RecordGrammar(region, pos + kl + vl + 4)

\* C12: OptionsFromBytes fails with TooShort on fewer than 2 bytes, with
\* SizeMismatch when the non-zero declared size exceeds what follows, and
\* with MalformedPair when the size-delimited region breaks the record
\* grammar; whatever it accepts follows the grammar.
C12_DecodeErrors ==
    ores.called =>
        /\ Len(raw) < 2 => (~ores.ok /\ ores.err.kind = "TooShort")
        /\ (Len(raw) >= 2 /\ DeclaredSize # 0 /\ Len(raw) < 2 + DeclaredSize)
              => (~ores.ok /\ ores.err.kind = "SizeMismatch")
        /\ (Len(raw) >= 2 /\ Len(raw) >= 2 + DeclaredSize)
              => LET region == SubSeq(raw, 3, 2 + DeclaredSize)
                 IN  IF RecordGrammar(region, 0)
                     THEN /\ ores.ok
                          /\ DeclaredSize # 0 => PairsBytes(ores.val.mapping.vals) = region
                     ELSE /\ ~ores.ok
                          /\ ores.err.kind = "MalformedPair"
                          /\ ores.err.offset \in 0..Len(region)

\* A one-record block whose byte after the 1-byte key is not '=' has been
\* rejected.
C12_Witness ==
    /\ ores.called /\ ~ores.ok
    /\ Len(raw) >= 5
    /\ Len(raw) = 2 + DeclaredSize
    /\ raw[3] = 1 /\ raw[5] # EqualsByte
    /\ ores.err.kind = "MalformedPair"


\* The keys of kv longer than 255 bytes, and the keys whose value is.
LongKeys(kv) == { k \in DOMAIN kv : Len(k) > MaxStringLen }
LongValues(kv) == { k \in DOMAIN kv : Len(kv[k]) > MaxStringLen }

\* C13: Bytes() on an Options with a key or a value longer than 255 bytes
\* fails and returns no bytes, with KeyTooLong naming a too-long key or
\* ValueTooLong naming a key whose value is too long (so KeyTooLong when only
\* keys are too long, ValueTooLong when only values are); with every key and
\* value at most 255 bytes it succeeds.  However the entries were added.
C13_EncodeFieldLimit ==
    (oenc.called /\ ~IsNil(opts))
        => LET kv == opts.values.kv
           IN  IF LongKeys(kv) \cup LongValues(kv) # {}
               THEN /\ ~oenc.ok
                    /\ oenc.bytes = << >>
                    /\ \/ oenc.err.kind = "KeyTooLong" /\ oenc.err.key \in LongKeys(kv)
                       \/ oenc.err.kind = "ValueTooLong" /\ oenc.err.key \in LongValues(kv)
               ELSE oenc.ok

\* C13 as stated: any too-long key gives KeyTooLong, and any too-long value
\* gives ValueTooLong.
C13_KeyAndValueErrors ==
    (oenc.called /\ ~IsNil(opts))
        => LET kv == opts.values.kv
           IN  /\ LongKeys(kv) # {} => (~oenc.ok /\ oenc.err.kind = "KeyTooLong")
               /\ LongValues(kv) # {} => (~oenc.ok /\ oenc.err.kind = "ValueTooLong")

\* A decoded instance was given a 256-byte key by Set, and Bytes() was
\* called on it.
C13_Witness ==
    /\ oenc.called
    /\ olast.op = "Bytes" /\ olast.after.op = "Set"
    /\ olast.after.cached
    /\ Len(olast.after.key) > MaxStringLen
    /\ ~oenc.ok /\ oenc.err.kind = "KeyTooLong"


\* C14: on an instance obtained by EmptyOptions, NewOptions, OptionsFromBytes
\* and Set calls, Len() is the length of what Bytes() returns whenever
\* Bytes() succeeds, and 2 when Bytes() fails; it is 2 for an empty instance.
C14_LenIsEncodedLength ==
    (olast.op = "Len" /\ ~olast.nilrecv)
        => /\ \A r \in OptBytes(opts) :
                olast.ret = IF r.ok THEN Len(r.bytes) ELSE 2
           /\ OptIsEmpty(opts) => olast.ret = 2

\* C14 as stated: Len() equals len(Bytes()) in every reachable state.
C14_LenEqualsLenOfBytes ==
    (olast.op = "Len" /\ ~olast.nilrecv)
        => \A r \in OptBytes(opts) : olast.ret = Len(r.bytes)

\* Len() was called on a decoded instance that holds two records.
C14_Witness ==
    /\ olast.op = "Len" /\ ~olast.nilrecv
    /\ opts.mapping # NilMapping
    /\ Len(opts.mapping.vals) = 2
    /\ olast.ret = 2 + opts.mapping.size


Readings(o) ==
    [Get   |-> [k \in KeyInputs |-> OptGet(o, k)],
     Has   |-> [k \in KeyInputs |-> OptHas(o, k)],
     ToMap |-> OptToMap(o),
     Bytes |-> OptBytes(o)]

\* C16: a call of Get, Has, IsEmpty, ToMap, Len or Bytes leaves the
\* collection as it was; a write by the caller to the map ToMap returned, or
\* to the map it had passed to NewOptions, changes nothing that Get, Has,
\* ToMap or Bytes return; and Set(k, v) makes Get(k) = v and Has(k) true and
\* leaves the value and presence of every other key as they were.
C16_OnlySetChanges ==
    [][ /\ (olast'.op \in QueryOps \cup {"Bytes"})
            => (opts' = opts /\ Readings(opts') = Readings(opts))
        /\ (olast'.op = "CallerWrite" /\ olast.op # "CallerWrite")
            => Readings(opts') = Readings(opts)
        /\ (olast'.op = "Set" /\ ~olast'.nilrecv /\ olast' # olast)
            => /\ OptGet(opts', olast'.key) = olast'.value
               /\ OptHas(opts', olast'.key)
               /\ \A k \in (KeyInputs \cup SetKeyInputs) \ {olast'.key} :
                    /\ OptHas(opts', k) = OptHas(opts, k)
                    /\ OptGet(opts', k) = OptGet(opts, k)
               /\ DOMAIN OptToMap(opts').kv = DOMAIN OptToMap(opts).kv \cup {olast'.key}
      ]_vars

\* The caller has added a key to the map that ToMap() returned on an
\* Options that does not hold that key.
C16_Witness ==
    /\ olast.op = "CallerWrite" /\ olast.on = "ToMap"
    /\ ~IsNil(opts) /\ NumValues(opts) = 1
    /\ ~OptHas(opts, olast.key)
    /\ olast.key \in DOMAIN olast.map.kv


----------------------------------------------------------------------------
(* The address operations as a state machine                               *)

\* Longest string over the alphabet handed to ParseI2PAddr.
MaxAddrLen == 3

\* "a", ":", "0", "1", "6", "-"
AddrAlphabet == {97, ColonChar, ZeroChar, ZeroChar + 1, ZeroChar + 6, 45}

\* "a:b:12345", ":9000", "x:99999", "x:-1", "x:65535", "x:65536", "x:007",
\* "x:+1", "x:8080", "x:1x", "x:4294967297", "ab:0"
NamedAddrInputs ==
    { <<97, 58, 98, 58, 49, 50, 51, 52, 53>>,
      <<58, 57, 48, 48, 48>>,
      <<120, 58, 57, 57, 57, 57, 57>>,
      <<120, 58, 45, 49>>,
      <<120, 58, 54, 53, 53, 51, 53>>,
      <<120, 58, 54, 53, 53, 51, 54>>,
      <<120, 58, 48, 48, 55>>,
      <<120, 58, 43, 49>>,
      <<120, 58, 56, 48, 56, 48>>,
      <<120, 58, 49, 120>>,
      <<120, 58, 52, 50, 57, 52, 57, 54, 55, 50, 57, 55>>,
      <<97, 98, 58, 48>> }

\* The strings handed to ParseI2PAddr: every string of at most MaxAddrLen
\* characters of the alphabet, and the named ones.
ParseInputs == SeqsUpTo(AddrAlphabet, MaxAddrLen) \cup NamedAddrInputs

\* The addresses a caller builds as struct literals: destinations of 0, 1,
\* 16 and 17 bytes and one with a colon, ports across the range.
LiteralInputs ==
    { I2PAddr(d, p) :
        d \in { << >>, <<97>>, [i \in 1..ShownLen |-> 97], [i \in 1..(ShownLen + 1) |-> 97],
                <<97, 58, 98>> },
        p \in {0, 1, 8080, MaxUint16} }

InitAddr ==
    /\ OsIdle
    /\ OptIdle
    /\ AddrIdle

\* addr, err := ParseI2PAddr(s)
AddrParse(s) ==
    /\ alast.op = "none"
    /\ LET r == ParseI2PAddr(s)
       IN  /\ addr' = r.val
           /\ alast' = [op |-> "Parse", arg |-> s, ok |-> r.ok, err |-> r.err]
    /\ UNCHANGED <<aother, osVars, optVars>>

\* addr := &I2PAddr{Destination: ..., Port: ...}
AddrLiteral(a) ==
    /\ alast.op = "none"
    /\ addr' = a
    /\ alast' = [op |-> "Literal"]
    /\ UNCHANGED <<aother, osVars, optVars>>

\* other, err := ParseI2PAddr(s)
AddrParseOther(s) ==
    /\ alast.op \in {"none", "Parse", "Literal"}
    /\ LET r == ParseI2PAddr(s)
       IN  /\ aother' = r.val
           /\ alast' = [op |-> "ParseOther", arg |-> s, ok |-> r.ok, err |-> r.err,
                        first |-> alast]
    /\ UNCHANGED <<addr, osVars, optVars>>

\* other := &I2PAddr{Destination: ..., Port: ...}
AddrOtherLiteral(a) ==
    /\ alast.op \in {"none", "Parse", "Literal"}
    /\ aother' = a
    /\ alast' = [op |-> "OtherLiteral", first |-> alast]
    /\ UNCHANGED <<addr, osVars, optVars>>

\* addr.Equal(other), other.Equal(addr), addr.Equal(addr)
AddrEqualCall ==
    /\ alast.op \notin {"Equal", "String"}
    /\ alast' = [op |-> "Equal",
                 ret |-> AddrEqual(addr, aother),
                 rev |-> AddrEqual(aother, addr),
                 self |-> AddrEqual(addr, addr),
                 prev |-> alast]
    /\ UNCHANGED <<addr, aother, osVars, optVars>>

\* addr.String()
AddrStringCall ==
    /\ alast.op \in {"none", "Parse", "Literal"}
    /\ alast' = [op |-> "String", ret |-> AddrString(addr), prev |-> alast]
    /\ UNCHANGED <<addr, aother, osVars, optVars>>

NextAddr ==
    \/ alast.op = "none" /\ \E s \in ParseInputs : AddrParse(s)
    \/ alast.op = "none" /\ \E a \in LiteralInputs : AddrLiteral(a)
    \/ \E s \in NamedAddrInputs \cup (IF alast.op = "Parse" THEN {alast.arg} ELSE {}) :
            AddrParseOther(s)
    \/ \E a \in LiteralInputs : AddrOtherLiteral(a)
    \/ AddrEqualCall
    \/ AddrStringCall

SpecAddr == InitAddr /\ [][NextAddr]_vars


----------------------------------------------------------------------------
(* Properties of the address operations                                    *)

\* Index of the last sep in s; s contains one.
LastIndex(s, sep) ==
    CHOOSE i \in 1..Len(s) : s[i] = sep /\ \A j \in (i + 1)..Len(s) : s[j] # sep

\* The value a run of decimal digits denotes, held at 65536 once it is
\* that large.
RECURSIVE DecValue(_)
DecValue(p) ==
    IF p = << >> THEN 0
    ELSE LET v == DecValue(SubSeq(p, 1, Len(p) - 1)) * 10 + (p[Len(p)] - ZeroChar)
         IN  IF v > MaxUint16 THEN MaxUint16 + 1 ELSE v

\* p is a non-empty run of decimal digits with a value in [0, 65535].
IsPort(p) ==
    /\ p # << >>
    /\ \A i \in 1..Len(p) : p[i] \in DigitChars
    /\ DecValue(p) <= MaxUint16

\* C17: ParseI2PAddr("") fails with EmptyAddress; a string without a colon
\* is the destination, with port 0; otherwise the text after the last colon
\* must be a non-empty run of decimal digits of value at most 65535, or the
\* call fails with InvalidPort naming that text; on success the destination
\* is the text before the last colon and the port is that value.
C17_AddressParsing ==
    alast.op = "Parse" =>
        LET s == alast.arg
        IN  IF s = << >>
            THEN ~alast.ok /\ addr = NilAddr /\ alast.err.kind = "EmptyAddress"
            ELSE IF \A i \in 1..Len(s) : s[i] # ColonChar
            THEN alast.ok /\ addr = I2PAddr(s, 0)
            ELSE LET i   == LastIndex(s, ColonChar)
                     seg == SubSeq(s, i + 1, Len(s))
                 IN  IF IsPort(seg)
                     THEN /\ alast.ok
                          /\ addr = I2PAddr(SubSeq(s, 1, i - 1), DecValue(seg))
                     ELSE /\ ~alast.ok /\ addr = NilAddr
                          /\ alast.err = [kind |-> "InvalidPort", segment |-> seg]

\* "a:b:12345" has been parsed into destination "a:b" and port 12345.
C17_Witness ==
    /\ alast.op = "Parse" /\ alast.ok
    /\ alast.arg = <<97, 58, 98, 58, 49, 50, 51, 52, 53>>
    /\ addr = I2PAddr(<<97, 58, 98>>, 12345)


\* C18: Equal is true exactly when both addresses are nil, or both are
\* present with equal destination and equal port; it is reflexive and
\* symmetric, two parses of the same string are Equal, and an empty
\* destination never equals a non-empty one at the same port.
C18_AddressEquality ==
    alast.op = "Equal" =>
        /\ alast.ret = \/ addr = NilAddr /\ aother = NilAddr
                       \/ /\ addr # NilAddr /\ aother # NilAddr
                          /\ addr.Destination = aother.Destination
                          /\ addr.Port = aother.Port
        /\ ((addr = NilAddr) # (aother = NilAddr)) => ~alast.ret
        /\ alast.self
        /\ alast.rev = alast.ret
        /\ (/\ alast.prev.op = "ParseOther"
            /\ alast.prev.first.op = "Parse"
            /\ alast.prev.arg = alast.prev.first.arg) => alast.ret
        /\ (/\ addr # NilAddr /\ aother # NilAddr
            /\ addr.Port = aother.Port
            /\ (addr.Destination = << >>) # (aother.Destination = << >>)) => ~alast.ret

\* "x:8080" was parsed twice, and the two results were compared.
C18_Witness ==
    /\ alast.op = "Equal" /\ alast.ret
    /\ alast.prev.op = "ParseOther" /\ alast.prev.first.op = "Parse"
    /\ alast.prev.arg = <<120, 58, 56, 48, 56, 48>>
    /\ alast.prev.first.arg = alast.prev.arg
    /\ addr = I2PAddr(<<120>>, 8080)


C20_DuplicateKeys ==
    (ores.called /\ Len(raw) >= 2 /\ Len(raw) >= 2 + DeclaredSize)
        => LET block == SubSeq(raw, 1, 2 + DeclaredSize)
               recs  == RecordsOf(block).vals
               keys  == { Tail(recs[i][1]) : i \in 1..Len(recs) }
           IN  (/\ RecordGrammar(SubSeq(block, 3, Len(block)), 0)
                /\ Cardinality(keys) < Len(recs))
                   => /\ ores.ok
                      /\ DOMAIN OptToMap(ores.val).kv = keys
                      /\ NumValues(ores.val) = Cardinality(keys)
                      /\ \A i \in 1..Len(recs) :
                           (\A j \in (i + 1)..Len(recs) : recs[j][1] # recs[i][1])
                               => OptGet(ores.val, Tail(recs[i][1])) = Tail(recs[i][2])

\* A block with the records b="" and b="1", in that order, has been decoded.
C20_Witness ==
    /\ ores.called /\ ores.ok
    /\ raw = Wire(<< <<ToI2PString(StrB).str, ToI2PString(StrEmpty).str>>,
                     <<ToI2PString(StrB).str, ToI2PString(Str1).str>> >>)
    /\ OptGet(ores.val, StrB) = Str1
    /\ NumValues(ores.val) = 1


----------------------------------------------------------------------------
(* Re-encoding a decoded offline signature                                 *)

\* C21: whenever OfflineSignatureFromBytes(data, d) succeeds with
\* bytesConsumed n, Bytes() of the decoded value is data[0:n] byte for byte
\* (and Len() of it is n).
C21_ByteExactReencoding ==
    reenc.called
        => /\ res.ok
           /\ reenc.bytes = SubSeq(data, 1, res.n)
           /\ reenc.len = res.n

\* A block expiring at 2^32 - 1 seconds and followed by payload bytes has
\* been decoded, and the decoded structure encoded again.
C21_Witness ==
    /\ reenc.called
    /\ origin.kind = "trailing"
    /\ res.n < Len(data)
    /\ SubSeq(data, 1, 4) = <<255, 255, 255, 255>>


----------------------------------------------------------------------------
(* Expires on the wire                                                     *)

\* s mod 2^32 of a count of seconds s = hi * 2^16 + lo, as four bytes, most
\* significant first.
SecondsMod32(t) ==
    << (t.hi % Limb) \div 256, (t.hi % Limb) % 256, t.lo \div 256, t.lo % 256 >>

\* C22: Bytes() writes the Unix seconds of Expires modulo 2^32 in bytes
\* [0,4), discarding the sub-second part, and never fails; decoding reads
\* them back as a non-negative whole number of seconds; so the decoded
\* Expires equals the original exactly when the original is a whole number
\* of seconds s with 0 <= s < 2^32, and differs from it otherwise.
C22_ExpiresModulo32 ==
    /\ origin.kind = "encoded"
         => SubSeq(data, 1, 4) = SecondsMod32(sig.Expires)
    /\ (Decoded("encoded") /\ ValidFor(sig, res.d))
         => /\ res.ok
            /\ res.val.Expires.nsec = 0
            /\ res.val.Expires.hi \in 0..(Limb - 1)
            /\ res.val.Expires.lo \in 0..(Limb - 1)
            /\ res.val.Expires.hi = sig.Expires.hi % Limb
            /\ res.val.Expires.lo = sig.Expires.lo
            /\ (res.val.Expires = sig.Expires) <=> WholeSecondsU32(sig.Expires)

\* An authorization expiring one second before the epoch has been encoded
\* and decoded: the decoded expiry is 2^32 - 1 seconds.
C22_Witness ==
    /\ Decoded("encoded") /\ ValidFor(sig, res.d) /\ res.ok
    /\ sig.Expires = Instant(-1, 65535, 0)
    /\ res.val.Expires = Instant(65535, 65535, 0)

====
